---------------------------- MODULE Spec2Model ----------------------------
(***************************************************************************)
(* A model of the AI grading core of SmarTest:                             *)
(*   - the clever-endpoint edge function (cache key, result cache,         *)
(*     withRetry, generateWithFallback, the serve handler);                *)
(*   - the client side aiService.evaluateTest (fence stripping, parsing,   *)
(*     score aggregation).                                                 *)
(* The specifications of the module:                                       *)
(*   Spec        the serve handler of clever-endpoint, two requests        *)
(*               running against one evaluations_cache table               *)
(*   SpecKey     the cache key computation applied to pairs of bodies      *)
(*   SpecClient  aiService.evaluateTest applied to one function reply      *)
(*   SpecFence   aiService.evaluateTest applied to a text and to the same  *)
(*               text inside a json fence                                  *)
(*   SpecRetry   one run of withRetry over a function whose calls resolve  *)
(*               or reject                                                 *)
(*   SpecGenerate  one request to gemini-test-generation-pro,              *)
(*               gemini-tutor-flash or gemini-regenerate-question-flash    *)
(*   SpecSingle  Spec with one request, under fairness                     *)
(*   SpecTake    the test-taking view: answers, timer, submission          *)
(*   SpecSave    the save-test function, update mode                       *)
(***************************************************************************)
EXTENDS Integers, Sequences, FiniteSets, TLC

VARIABLES
    env,      \* providers whose API key is set in the function's environment
    cache,    \* the evaluations_cache table: hash -> result (or NoRow)
    fault,    \* a cache read or write has failed with an I/O error
    pc,       \* pc[r]: position of request r in the serve handler
    body,     \* body[r]: the request body of r as received
    prov,     \* prov[r]: provider generateWithFallback is at (1..3, 4 = past the last)
    attempt,  \* attempt[r]: withRetry's loop counter i
    wait,     \* wait[r]: the last backoff wait of the running withRetry (ms), 0 if none
    text,     \* text[r]: jsonResponseString
    resp,     \* resp[r]: the Response the handler returned
    calls,    \* calls[r][p]: provider calls r has issued to p
    reason,   \* reason[r][p]: failure logged by console.warn for p, "none" if none
    before,   \* before[r]: the requests already answered when r arrived
    kc,       \* SpecKey: the pair of bodies and their keys
    cl,       \* SpecClient, SpecFence: the calls of evaluateTest and their outcomes
    wr,       \* SpecRetry: one run of withRetry
    gen,      \* SpecGenerate: one request to a generation function
    tv,       \* SpecTake: one mounted TakeTestView, one attempt at a test
    st        \* SpecSave: one request to save-test in update mode

vars == <<env, cache, fault, pc, body, prov, attempt, wait, text, resp, calls,
          reason, before, kc, cl, wr, gen, tv, st>>

endpointVars == <<env, cache, fault, pc, body, prov, attempt, wait, text, resp,
                  calls, reason, before>>

-----------------------------------------------------------------------------
(* Bounds of the model.                                                    *)

MaxMapKeys == 2     \* sub-answers in a comprehension answer map
JitterSteps == 1    \* sampled values of Math.random() * 1000 below the top one
MaxQ == 2           \* questions of a test
MaxMarks == 5       \* marks of a question, and marks a provider awards
MaxSub == 2         \* sub-questions of a comprehension question
MaxRawLen == 3      \* characters of an unwrapped provider text
MaxPad == 1         \* whitespace characters at each place around a fence
MaxRetries == 4     \* largest value of withRetry's parameter retries
MaxTimer == 1       \* longest timer of a test, in minutes
MaxSubmits == 2     \* runs of handleSubmit the model follows for one attempt

-----------------------------------------------------------------------------
(* JSON values as JavaScript holds them after req.json().                  *)
(* A scalar is its JSON literal (a string of the model).  An object is its *)
(* property list: a sequence of <<key, value>> pairs in the order the body *)
(* lists them; keys are strings, as in JavaScript.                         *)

\* The array-index keys "0", "1", ...: IntKeyNames[n + 1] is the key of n.
IntKeyNames == <<"0", "1", "2", "3", "4", "5">>

IsIntKey(k) == \E i \in DOMAIN IntKeyNames : IntKeyNames[i] = k

KeyNum(k) == (CHOOSE i \in DOMAIN IntKeyNames : IntKeyNames[i] = k) - 1

Range(s) == {s[i] : i \in DOMAIN s}

\* The permutations of a finite set, as sequences.
Perms(S) ==
    {s \in [1..Cardinality(S) -> S] : \A i, j \in DOMAIN s : i # j => s[i] # s[j]}

\* Insertion of property p into a list sorted by ascending integer key.
RECURSIVE InsertByKey(_, _)
InsertByKey(p, s) ==
    IF s = <<>> THEN <<p>>
    ELSE IF KeyNum(p[1]) < KeyNum(Head(s)[1]) THEN <<p>> \o s
    ELSE <<Head(s)>> \o InsertByKey(p, Tail(s))

RECURSIVE SortByKey(_)
SortByKey(s) == IF s = <<>> THEN <<>> ELSE InsertByKey(Head(s), SortByKey(Tail(s)))

\* A variant that keeps every key in insertion order.
JsOrderAsListed(props) == props

\* Own-property order of a JavaScript object: integer-like keys first, in
\* ascending numeric order, then string keys in insertion order.
JsOrder(props) ==
    SortByKey(SelectSeq(props, LAMBDA p : IsIntKey(p[1])))
        \o SelectSeq(props, LAMBDA p : ~IsIntKey(p[1]))

\* s[1] sep s[2] sep ... for a sequence s of token sequences.
RECURSIVE Join(_, _)
Join(s, sep) ==
    IF s = <<>> THEN <<>>
    ELSE IF Len(s) = 1 THEN Head(s)
    ELSE Head(s) \o <<sep>> \o Join(Tail(s), sep)

\* JSON.stringify of an object whose values are scalars: the properties in
\* own-property order.
StringifyObject(props) ==
    LET o == JsOrder(props)
    IN  <<"{">> \o Join([i \in DOMAIN o |-> <<o[i][1], ":", o[i][2]>>], ",") \o <<"}">>

\* An answer is a string or a map from sub-question index to string.
StringifyAnswer(a) == IF a.t = "map" THEN StringifyObject(a.m) ELSE <<a.s>>

StringifyArray(items) == <<"[">> \o Join(items, ",") \o <<"]">>

\* A variant that stringifies the body as it came, its further field included.
submissionStringOfBody(b) ==
    <<"{", "questions", ":">>
        \o StringifyArray([i \in DOMAIN b.questions |-> StringifyObject(b.questions[i])])
        \o <<",", "answers", ":">>
        \o StringifyArray([i \in DOMAIN b.answers |-> StringifyAnswer(b.answers[i])])
        \o (IF b.sentAt = "" THEN <<>> ELSE <<",", "sentAt", ":", b.sentAt>>)
        \o <<"}">>

\* const { questions, answers } = await req.json();
\* JSON.stringify({ questions, answers })
submissionString(b) ==
    <<"{", "questions", ":">>
        \o StringifyArray([i \in DOMAIN b.questions |-> StringifyObject(b.questions[i])])
        \o <<",", "answers", ":">>
        \o StringifyArray([i \in DOMAIN b.answers |-> StringifyAnswer(b.answers[i])])
        \o <<"}">>

\* crypto.subtle.digest("SHA-256", ...) rendered by bufferToHex.  The digest is
\* modelled as collision-free: the key determines the hashed string.
Sha256Hex(s) == <<"sha256", s>>

\* The cache key of a request body.
CacheKey(b) == Sha256Hex(submissionString(b))

NoKey == <<"none", <<>>>>

-----------------------------------------------------------------------------
(* Request bodies.                                                         *)

\* A question object: its properties "marks" and "text" in either order.
QuestionObjects ==
    UNION {Perms({<<"marks", m>>, <<"text", "\"t\"">>}) : m \in {"1", "2"}}

\* A comprehension answer: one string per sub-question index, the keys in any
\* insertion order (the order in which the student answered).
AnswerMaps == Perms({<<IntKeyNames[i], "\"x\"">> : i \in 1..MaxMapKeys})

Answers ==
    {[t |-> "str", s |-> "\"a\"", m |-> <<>>]}
        \cup {[t |-> "map", s |-> "", m |-> am] : am \in AnswerMaps}

\* top: the order of the top-level keys of the body; sentAt: a further
\* top-level field ("" when the body has none).
Bodies ==
    [top : Perms({"questions", "answers"}),
     sentAt : {"", "1"},
     questions : {<<q>> : q \in QuestionObjects},
     answers : {<<a>> : a \in Answers}]

\* The bodies the requests of Spec carry: one submission, its question object
\* written in both key orders.
ReqBodies ==
    {b \in Bodies : /\ b.top = <<"questions", "answers">>
                    /\ b.sentAt = ""
                    /\ b.answers[1].t = "str"
                    /\ \E i \in 1..2 : b.questions[1][i] = <<"marks", "1">>}

Hashes == {CacheKey(b) : b \in ReqBodies}

\* What a JSON value means, whatever the order of its keys: an object is the
\* set of its properties.
AsMap(props) == {p : p \in Range(props)}

Meaning(b) ==
    [questions |-> [i \in DOMAIN b.questions |-> AsMap(b.questions[i])],
     answers |-> [i \in DOMAIN b.answers |->
                    [t |-> b.answers[i].t, s |-> b.answers[i].s,
                     m |-> AsMap(b.answers[i].m)]]]

-----------------------------------------------------------------------------
(* SpecKey: the key computation of the serve handler on a pair of bodies.  *)

KcIdle == [phase |-> "idle", a |-> <<>>, b |-> <<>>, ka |-> NoKey, kb |-> NoKey]

InitKeyVars ==
    \E a, b \in Bodies :
        kc = [phase |-> "received", a |-> a, b |-> b, ka |-> NoKey, kb |-> NoKey]

\* part_002:195-203 on each of the two bodies.
ComputeKeys ==
    /\ kc.phase = "received"
    /\ kc' = [kc EXCEPT !.phase = "hashed",
                        !.ka = CacheKey(kc.a),
                        !.kb = CacheKey(kc.b)]
    /\ UNCHANGED <<endpointVars, cl, wr, gen, tv, st>>

-----------------------------------------------------------------------------
(* clever-endpoint: withRetry, generateWithFallback and the serve handler. *)

\* Two requests, which may overlap or follow one another.
Reqs == {1, 2}

\* The providers in the order generateWithFallback tries them.
ProviderNames == <<"Gemini", "Groq", "OpenAI">>

Providers == Range(ProviderNames)

PastLast == Len(ProviderNames) + 1

\* withRetry's default number of attempts.
Retries == 3

BaseDelay == 1000

JitterRange == 1000

\* Math.random() * 1000 lies in [0, 1000); the model samples it in whole ms.
Jitter == {(k * JitterRange) \div JitterSteps : k \in 0..(JitterSteps - 1)}
              \cup {JitterRange - 1}

\* A variant with a linear backoff that starts at no delay.
WaitLinear(i, rnd) == BaseDelay * i + rnd

\* const wait = 1000 * Math.pow(2, i) + Math.random() * 1000;
Wait(i, rnd) == BaseDelay * (2 ^ i) + rnd

\* A variant that rethrows one attempt later.
IsLastAttemptLate(i) == i = Retries

\* if (i === retries - 1) throw err;
IsLastAttempt(i) == i = Retries - 1

\* The text a provider returns: by whom, and whether it parses as JSON.
NoText == [by |-> "none", kind |-> "none"]

\* A row of evaluations_cache holds the parsed result.
NoRow == [by |-> "none"]

\* JSON.parse(jsonResponseString), for a text that parses.
ParseResult(t) == [by |-> t.by]

\* JSON.stringify(cached.result)
StringifyResult(row) == [by |-> row.by, kind |-> "json"]

NoError == [message |-> "", reasons |-> {}]

\* new Error('All API providers (Gemini, Groq, OpenAI) failed. ...'): a fixed
\* message; reasons is the set of <<provider, failure>> the message names.
AllFailedError ==
    [message |-> "All API providers (Gemini, Groq, OpenAI) failed. Please check your keys, billing, and API status.",
     reasons |-> {}]

NoResp == [status |-> 0, text |-> NoText, error |-> NoError]

\* new Response(text, { headers }): status 200.
OkResponse(t) == [status |-> 200, text |-> t, error |-> NoError]

\* A variant that leaves the status of the error response at its default.
ErrorResponseDefaultStatus(e) == [status |-> 200, text |-> NoText, error |-> e]

\* new Response(JSON.stringify({ error: error.message }), { status: 500 })
ErrorResponse(e) == [status |-> 500, text |-> NoText, error |-> e]

\* How a provider call can end.  "text": the provider replied with a text;
\* "throw": the promise given to withRetry rejected (an SDK error for Gemini,
\* a network error for fetch); "http": fetch resolved with a non-2xx response,
\* which is no rejection.
Outcomes(p) ==
    IF p = "Gemini" THEN {"json", "garbage", "throw"}
    ELSE {"json", "garbage", "throw", "http"}

InitEndpointVars ==
    /\ env \in SUBSET Providers
    /\ cache = [h \in Hashes |-> NoRow]
    /\ fault = FALSE
    /\ pc = [r \in Reqs |-> "start"]
    /\ body = [r \in Reqs |-> CHOOSE b \in ReqBodies : TRUE]
    /\ prov = [r \in Reqs |-> 1]
    /\ attempt = [r \in Reqs |-> 0]
    /\ wait = [r \in Reqs |-> 0]
    /\ text = [r \in Reqs |-> NoText]
    /\ resp = [r \in Reqs |-> NoResp]
    /\ calls = [r \in Reqs |-> [p \in Providers |-> 0]]
    /\ reason = [r \in Reqs |-> [p \in Providers |-> "none"]]
    /\ before = [r \in Reqs |-> {}]

\* const { questions, answers } = await req.json(); ... const hash = ...
Receive(r) ==
    /\ pc[r] = "start"
    /\ \E b \in ReqBodies : body' = [body EXCEPT ![r] = b]
    /\ pc' = [pc EXCEPT ![r] = "read"]
    /\ before' = [before EXCEPT ![r] = {q \in Reqs : pc[q] = "done"}]
    /\ UNCHANGED <<env, cache, fault, prov, attempt, wait, text, resp, calls,
                   reason, kc, cl, wr, gen, tv, st>>

\* A variant in which a failure of the cache read is thrown to the handler's
\* catch block.
CacheReadFatal(r) ==
    /\ pc[r] = "read"
    /\ LET hash == CacheKey(body[r])
       IN  \/ /\ cache[hash] # NoRow
              /\ resp' = [resp EXCEPT ![r] = OkResponse(StringifyResult(cache[hash]))]
              /\ pc' = [pc EXCEPT ![r] = "done"]
              /\ UNCHANGED fault
           \/ /\ cache[hash] = NoRow
              /\ pc' = [pc EXCEPT ![r] = "fallback"]
              /\ UNCHANGED <<resp, fault>>
           \/ /\ fault' = TRUE
              /\ resp' = [resp EXCEPT ![r] =
                            ErrorResponse([message |-> "Cache read error", reasons |-> {}])]
              /\ pc' = [pc EXCEPT ![r] = "done"]
    /\ UNCHANGED <<env, cache, body, prov, attempt, wait, text, calls, reason,
                   before, kc, cl, wr, gen, tv, st>>

\* The cache read: .select("result").eq("hash", hash).single()
CacheRead(r) ==
    /\ pc[r] = "read"
    /\ LET hash == CacheKey(body[r])
       IN  \/ /\ cache[hash] # NoRow          \* cache hit
              /\ resp' = [resp EXCEPT ![r] = OkResponse(StringifyResult(cache[hash]))]
              /\ pc' = [pc EXCEPT ![r] = "done"]
              /\ UNCHANGED fault
           \/ /\ cache[hash] = NoRow          \* PGRST116, no rows found
              /\ pc' = [pc EXCEPT ![r] = "fallback"]
              /\ UNCHANGED <<resp, fault>>
           \/ /\ fault' = TRUE                \* another cacheError: cached is null
              /\ pc' = [pc EXCEPT ![r] = "fallback"]
              /\ UNCHANGED resp
    /\ UNCHANGED <<env, cache, body, prov, attempt, wait, text, calls, reason,
                   before, kc, cl, wr, gen, tv, st>>

\* A variant that calls the provider although its key is missing.
CallUnconfigured(r) ==
    /\ pc[r] = "fallback"
    /\ prov[r] < PastLast
    /\ ProviderNames[prov[r]] \notin env
    /\ pc' = [pc EXCEPT ![r] = "inflight"]
    /\ calls' = [calls EXCEPT ![r][ProviderNames[prov[r]]] = @ + 1]
    /\ UNCHANGED <<env, cache, fault, body, prov, attempt, wait, text, resp,
                   reason, before, kc, cl, wr, gen, tv, st>>

\* A variant that counts the missing key as a failure of the provider.
SkipProviderAsFailure(r) ==
    /\ pc[r] = "fallback"
    /\ prov[r] < PastLast
    /\ ProviderNames[prov[r]] \notin env
    /\ prov' = [prov EXCEPT ![r] = @ + 1]
    /\ reason' = [reason EXCEPT ![r][ProviderNames[prov[r]]] = "throw"]
    /\ UNCHANGED <<env, cache, fault, pc, body, attempt, wait, text, resp, calls,
                   before, kc, cl, wr, gen, tv, st>>

\* if (apiKey) ... else console.log("... not found. Skipping ...")
SkipProvider(r) ==
    /\ pc[r] = "fallback"
    /\ prov[r] < PastLast
    /\ ProviderNames[prov[r]] \notin env
    /\ prov' = [prov EXCEPT ![r] = @ + 1]
    /\ UNCHANGED <<env, cache, fault, pc, body, attempt, wait, text, resp, calls,
                   reason, before, kc, cl, wr, gen, tv, st>>

\* withRetry: return await fn() -- the call is issued.
CallProvider(r) ==
    /\ pc[r] = "fallback"
    /\ prov[r] < PastLast
    /\ ProviderNames[prov[r]] \in env
    /\ pc' = [pc EXCEPT ![r] = "inflight"]
    /\ calls' = [calls EXCEPT ![r][ProviderNames[prov[r]]] = @ + 1]
    /\ UNCHANGED <<env, cache, fault, body, prov, attempt, wait, text, resp,
                   reason, before, kc, cl, wr, gen, tv, st>>

\* The provider's catch block: console.warn, then on to the next provider.
NextProvider(r, why) ==
    /\ reason' = [reason EXCEPT ![r][ProviderNames[prov[r]]] = why]
    /\ prov' = [prov EXCEPT ![r] = @ + 1]
    /\ attempt' = [attempt EXCEPT ![r] = 0]
    /\ wait' = [wait EXCEPT ![r] = 0]
    /\ pc' = [pc EXCEPT ![r] = "fallback"]
    /\ UNCHANGED text

\* A variant that keeps the text and goes on to the next provider.
ReturnTextAndGoOn(r, kind) ==
    /\ text' = [text EXCEPT ![r] = [by |-> ProviderNames[prov[r]], kind |-> kind]]
    /\ prov' = [prov EXCEPT ![r] = @ + 1]
    /\ attempt' = [attempt EXCEPT ![r] = 0]
    /\ pc' = [pc EXCEPT ![r] = IF prov[r] + 1 = PastLast THEN "save" ELSE "fallback"]
    /\ wait' = [wait EXCEPT ![r] = 0]
    /\ UNCHANGED reason

\* A variant that tries the provider again when its text does not parse.
ReturnTextRetrying(r, kind) ==
    /\ text' = [text EXCEPT ![r] = [by |-> ProviderNames[prov[r]], kind |-> kind]]
    /\ IF kind = "garbage" /\ ~IsLastAttempt(attempt[r])
       THEN /\ pc' = [pc EXCEPT ![r] = "fallback"]
            /\ attempt' = [attempt EXCEPT ![r] = @ + 1]
       ELSE /\ pc' = [pc EXCEPT ![r] = "save"]
            /\ UNCHANGED attempt
    /\ wait' = [wait EXCEPT ![r] = 0]
    /\ UNCHANGED <<prov, reason>>

\* return response.text / return data.choices[0].message.content
ReturnText(r, kind) ==
    /\ text' = [text EXCEPT ![r] = [by |-> ProviderNames[prov[r]], kind |-> kind]]
    /\ pc' = [pc EXCEPT ![r] = "save"]
    /\ wait' = [wait EXCEPT ![r] = 0]
    /\ UNCHANGED <<prov, attempt, reason>>

\* The call in flight ends; withRetry and the provider's branch of
\* generateWithFallback act on its outcome.
ProviderReturns(r) ==
    /\ pc[r] = "inflight"
    /\ \E o \in Outcomes(ProviderNames[prov[r]]) :
          \/ /\ o \in {"json", "garbage"}
             /\ ReturnText(r, o)
          \/ /\ o = "throw"
             /\ IsLastAttempt(attempt[r])
             /\ NextProvider(r, "throw")
          \/ /\ o = "throw"
             /\ ~IsLastAttempt(attempt[r])
             /\ \E rnd \in Jitter : wait' = [wait EXCEPT ![r] = Wait(attempt[r], rnd)]
             /\ pc' = [pc EXCEPT ![r] = "backoff"]
             /\ UNCHANGED <<prov, attempt, reason, text>>
          \/ /\ o = "http"      \* if (!response.ok) throw new Error(...)
             /\ NextProvider(r, "http")
    /\ UNCHANGED <<env, cache, fault, body, resp, calls, before, kc, cl, wr, gen, tv, st>>

\* await new Promise(res => setTimeout(res, wait)); then the next iteration.
BackoffElapsed(r) ==
    /\ pc[r] = "backoff"
    /\ attempt' = [attempt EXCEPT ![r] = @ + 1]
    /\ pc' = [pc EXCEPT ![r] = "fallback"]
    /\ UNCHANGED <<env, cache, fault, body, prov, wait, text, resp, calls, reason,
                   before, kc, cl, wr, gen, tv, st>>

\* A variant that answers with an empty text when no provider gave one.
AllFailedEmptyText(r) ==
    /\ pc[r] = "fallback"
    /\ prov[r] = PastLast
    /\ resp' = [resp EXCEPT ![r] = OkResponse(NoText)]
    /\ pc' = [pc EXCEPT ![r] = "done"]
    /\ UNCHANGED <<env, cache, fault, body, prov, attempt, wait, text, calls,
                   reason, before, kc, cl, wr, gen, tv, st>>

\* A variant that leaves a row for the request it could not answer.
AllFailedCachingError(r) ==
    /\ pc[r] = "fallback"
    /\ prov[r] = PastLast
    /\ cache' = [cache EXCEPT ![CacheKey(body[r])] = [by |-> "OpenAI"]]
    /\ resp' = [resp EXCEPT ![r] = ErrorResponse(AllFailedError)]
    /\ pc' = [pc EXCEPT ![r] = "done"]
    /\ UNCHANGED <<env, fault, body, prov, attempt, wait, text, calls,
                   reason, before, kc, cl, wr, gen, tv, st>>

\* throw new Error('All API providers ... failed. ...'), caught by the handler.
AllFailed(r) ==
    /\ pc[r] = "fallback"
    /\ prov[r] = PastLast
    /\ resp' = [resp EXCEPT ![r] = ErrorResponse(AllFailedError)]
    /\ pc' = [pc EXCEPT ![r] = "done"]
    /\ UNCHANGED <<env, cache, fault, body, prov, attempt, wait, text, calls,
                   reason, before, kc, cl, wr, gen, tv, st>>

\* A variant that responds without the insert.
RespondWithoutSave(r) ==
    /\ pc[r] = "save"
    /\ resp' = [resp EXCEPT ![r] = OkResponse(text[r])]
    /\ pc' = [pc EXCEPT ![r] = "done"]
    /\ UNCHANGED <<env, cache, fault, body, prov, attempt, wait, text, calls,
                   reason, before, kc, cl, wr, gen, tv, st>>

\* A variant in which an insert on a hash that has a row is thrown to the
\* handler's catch block.
SaveAndRespondDuplicateFatal(r) ==
    /\ pc[r] = "save"
    /\ LET hash == CacheKey(body[r])
       IN  \/ /\ text[r].kind = "json"
              /\ cache[hash] = NoRow
              /\ cache' = [cache EXCEPT ![hash] = ParseResult(text[r])]
              /\ resp' = [resp EXCEPT ![r] = OkResponse(text[r])]
              /\ UNCHANGED fault
           \/ /\ text[r].kind = "json"
              /\ cache[hash] # NoRow
              /\ resp' = [resp EXCEPT ![r] =
                            ErrorResponse([message |-> "Cache write error", reasons |-> {}])]
              /\ UNCHANGED <<cache, fault>>
           \/ /\ text[r].kind = "json"
              /\ fault' = TRUE
              /\ resp' = [resp EXCEPT ![r] = OkResponse(text[r])]
              /\ UNCHANGED cache
           \/ /\ text[r].kind # "json"
              /\ resp' = [resp EXCEPT ![r] = OkResponse(text[r])]
              /\ UNCHANGED <<cache, fault>>
    /\ pc' = [pc EXCEPT ![r] = "done"]
    /\ UNCHANGED <<env, body, prov, attempt, wait, text, calls, reason, before,
                   kc, cl, wr, gen, tv, st>>

\* A variant that stores the text as it came, without JSON.parse.
SaveAndRespondRawText(r) ==
    /\ pc[r] = "save"
    /\ LET hash == CacheKey(body[r])
       IN  \/ /\ cache[hash] = NoRow
              /\ cache' = [cache EXCEPT ![hash] = ParseResult(text[r])]
              /\ UNCHANGED fault
           \/ /\ cache[hash] # NoRow
              /\ UNCHANGED <<cache, fault>>
           \/ /\ fault' = TRUE
              /\ UNCHANGED cache
    /\ resp' = [resp EXCEPT ![r] = OkResponse(text[r])]
    /\ pc' = [pc EXCEPT ![r] = "done"]
    /\ UNCHANGED <<env, body, prov, attempt, wait, text, calls, reason, before,
                   kc, cl, wr, gen, tv, st>>

\* A variant that writes the row with an upsert.
SaveAndRespondUpsert(r) ==
    /\ pc[r] = "save"
    /\ LET hash == CacheKey(body[r])
       IN  \/ /\ text[r].kind = "json"
              /\ cache' = [cache EXCEPT ![hash] = ParseResult(text[r])]
              /\ UNCHANGED fault
           \/ /\ text[r].kind = "json"
              /\ fault' = TRUE
              /\ UNCHANGED cache
           \/ /\ text[r].kind # "json"
              /\ UNCHANGED <<cache, fault>>
    /\ resp' = [resp EXCEPT ![r] = OkResponse(text[r])]
    /\ pc' = [pc EXCEPT ![r] = "done"]
    /\ UNCHANGED <<env, body, prov, attempt, wait, text, calls, reason, before,
                   kc, cl, wr, gen, tv, st>>

\* Save to cache, then respond with the provider's text.
SaveAndRespond(r) ==
    /\ pc[r] = "save"
    /\ LET hash == CacheKey(body[r])
       IN  \/ /\ text[r].kind = "json"        \* inserted
              /\ cache[hash] = NoRow
              /\ cache' = [cache EXCEPT ![hash] = ParseResult(text[r])]
              /\ UNCHANGED fault
           \/ /\ text[r].kind = "json"        \* insertError: the hash is there
              /\ cache[hash] # NoRow
              /\ UNCHANGED <<cache, fault>>
           \/ /\ text[r].kind = "json"        \* insertError: the write failed
              /\ fault' = TRUE
              /\ UNCHANGED cache
           \/ /\ text[r].kind # "json"        \* JSON.parse threw
              /\ UNCHANGED <<cache, fault>>
    /\ resp' = [resp EXCEPT ![r] = OkResponse(text[r])]
    /\ pc' = [pc EXCEPT ![r] = "done"]
    /\ UNCHANGED <<env, body, prov, attempt, wait, text, calls, reason, before,
                   kc, cl, wr, gen, tv, st>>

-----------------------------------------------------------------------------
(* withRetry on its own: fn is given by what each of its calls does, and   *)
(* the value or error of call k is told from the others by its number k.   *)

\* The values of the parameter retries: the default, shorter and longer loops.
RetryCounts == 1..MaxRetries

NoSettled == [kind |-> "none", of |-> 0]

\* The value fn's call k resolved with.
ValueOf(k) == [kind |-> "value", of |-> k]

\* The error fn's call k rejected with.
ErrorOf(k) == [kind |-> "error", of |-> k]

WrIdle ==
    [pc |-> "idle", retries |-> Retries, fn |-> <<>>, i |-> 0, calls |-> 0,
     wait |-> 0, out |-> NoSettled]

InitRetryVars ==
    \E n \in RetryCounts : \E fn \in [1..n -> {"resolve", "reject"}] :
        wr = [WrIdle EXCEPT !.pc = "loop", !.retries = n, !.fn = fn]

\* for (let i = 0; i < retries; i++) { try { return await fn(); -- the call.
\* The throw after the loop is not reached when retries >= 1.
RetryCall ==
    /\ wr.pc = "loop"
    /\ wr.i < wr.retries
    /\ wr' = [wr EXCEPT !.pc = "awaiting", !.calls = @ + 1]
    /\ UNCHANGED <<endpointVars, kc, cl, gen, tv, st>>

\* A variant that throws an error of its own after the last attempt.
RetrySettleReplacing ==
    /\ wr.pc = "awaiting"
    /\ \/ /\ wr.fn[wr.calls] = "resolve"
          /\ wr' = [wr EXCEPT !.pc = "done", !.out = ValueOf(wr.calls)]
       \/ /\ wr.fn[wr.calls] = "reject"
          /\ wr.i = wr.retries - 1
          /\ wr' = [wr EXCEPT !.pc = "done", !.out = ErrorOf(0)]
       \/ /\ wr.fn[wr.calls] = "reject"
          /\ wr.i # wr.retries - 1
          /\ \E rnd \in Jitter :
                wr' = [wr EXCEPT !.pc = "waiting", !.wait = Wait(wr.i, rnd)]
    /\ UNCHANGED <<endpointVars, kc, cl, gen, tv, st>>

\* The call settles: return its value; or catch (err): rethrow err on the
\* last iteration, else compute the wait and start the timer.
RetrySettle ==
    /\ wr.pc = "awaiting"
    /\ \/ /\ wr.fn[wr.calls] = "resolve"
          /\ wr' = [wr EXCEPT !.pc = "done", !.out = ValueOf(wr.calls)]
       \/ /\ wr.fn[wr.calls] = "reject"
          /\ wr.i = wr.retries - 1
          /\ wr' = [wr EXCEPT !.pc = "done", !.out = ErrorOf(wr.calls)]
       \/ /\ wr.fn[wr.calls] = "reject"
          /\ wr.i # wr.retries - 1
          /\ \E rnd \in Jitter :
                wr' = [wr EXCEPT !.pc = "waiting", !.wait = Wait(wr.i, rnd)]
    /\ UNCHANGED <<endpointVars, kc, cl, gen, tv, st>>

\* await new Promise(res => setTimeout(res, wait)); i++
RetryTimer ==
    /\ wr.pc = "waiting"
    /\ wr' = [wr EXCEPT !.pc = "loop", !.i = @ + 1]
    /\ UNCHANGED <<endpointVars, kc, cl, gen, tv, st>>

-----------------------------------------------------------------------------
(* The generation functions: each has its own generateWithFallback, without *)
(* withRetry, and a handler that returns the text.                         *)

GenerateFunctions ==
    {"gemini-test-generation-pro", "gemini-tutor-flash",
     "gemini-regenerate-question-flash"}

GenIdle ==
    [pc |-> "idle", fn |-> "gemini-test-generation-pro", prov |-> 1,
     calls |-> [p \in Providers |-> 0], text |-> NoText, resp |-> NoResp]

\* if (apiKey) ... else console.log("... not found. Skipping ...")
GenerateSkipProvider ==
    /\ gen.pc = "fallback"
    /\ gen.prov < PastLast
    /\ ProviderNames[gen.prov] \notin env
    /\ gen' = [gen EXCEPT !.prov = @ + 1]
    /\ UNCHANGED <<endpointVars, kc, cl, wr, tv, st>>

\* await ai.models.generateContent(payload) / await fetch(...): the call.
GenerateCallProvider ==
    /\ gen.pc = "fallback"
    /\ gen.prov < PastLast
    /\ ProviderNames[gen.prov] \in env
    /\ gen' = [gen EXCEPT !.pc = "inflight", !.calls[ProviderNames[gen.prov]] = @ + 1]
    /\ UNCHANGED <<endpointVars, kc, cl, wr, tv, st>>

\* A variant whose handler stores the text in evaluations_cache.
GenerateProviderReturnsCaching ==
    /\ gen.pc = "inflight"
    /\ \/ \E kind \in {"json", "garbage"}, h \in Hashes :
             /\ gen' = [gen EXCEPT
                            !.pc = "done",
                            !.text = [by |-> ProviderNames[gen.prov], kind |-> kind],
                            !.resp = OkResponse([by |-> ProviderNames[gen.prov],
                                                 kind |-> kind])]
             /\ cache' = [cache EXCEPT ![h] = [by |-> ProviderNames[gen.prov]]]
       \/ /\ gen' = [gen EXCEPT !.pc = "fallback", !.prov = @ + 1]
          /\ UNCHANGED cache
    /\ UNCHANGED <<env, fault, pc, body, prov, attempt, wait, text, resp, calls,
                   reason, before, kc, cl, wr, tv, st>>

\* The call ends.  With a text, generateWithFallback returns it and the
\* handler responds with it (gemini-tutor-flash: inside { text: ... }, which
\* always parses); with a throw or a non-2xx response the catch block logs
\* and the next provider is up.
GenerateProviderReturns ==
    /\ gen.pc = "inflight"
    /\ \/ \E kind \in {"json", "garbage"} :
             LET t == [by |-> ProviderNames[gen.prov], kind |-> kind]
             IN  gen' = [gen EXCEPT
                            !.pc = "done",
                            !.text = t,
                            !.resp = IF gen.fn = "gemini-tutor-flash"
                                     THEN OkResponse([t EXCEPT !.kind = "json"])
                                     ELSE OkResponse(t)]
       \/ gen' = [gen EXCEPT !.pc = "fallback", !.prov = @ + 1]
    /\ UNCHANGED <<endpointVars, kc, cl, wr, tv, st>>

\* throw new Error('All API providers ... failed. ...'), caught by the handler.
GenerateAllFailed ==
    /\ gen.pc = "fallback"
    /\ gen.prov = PastLast
    /\ gen' = [gen EXCEPT !.pc = "done", !.resp = ErrorResponse(AllFailedError)]
    /\ UNCHANGED <<endpointVars, kc, cl, wr, tv, st>>

-----------------------------------------------------------------------------
(* TakeTestView: the answers state, the timer effect and handleSubmit.     *)

\* timeRemaining === null: the test has no timer.
NoTimer == 0 - 1

SecondsPerMinute == 60

\* useState(test.timer ? test.timer * 60 : null)
Timers == {NoTimer} \cup {m * SecondsPerMinute : m \in 1..MaxTimer}

\* What an answer input gives: a string.
AnswerValues == {"", "a"}

\* localStorage.getItem(autoSaveKey): nothing, a text that does not parse, a
\* JSON value that is no array, or an array of some length.
Drafts ==
    {[kind |-> k, items |-> <<>>] : k \in {"none", "garbage", "object"}}
        \cup {[kind |-> "array", items |-> [i \in 1..len |-> "a"]] :
                  len \in 0..(MaxQ + 1)}

\* A variant that takes any saved array as the answers.
InitialAnswersAnyArray(n, draft) ==
    IF draft.kind = "array" THEN draft.items ELSE [i \in 1..n |-> ""]

\* The initializer of the answers state: the saved array when it is an array
\* of test.questions.length entries, else Array(test.questions.length).fill('').
InitialAnswers(n, draft) ==
    IF draft.kind = "array" /\ Len(draft.items) = n
    THEN draft.items
    ELSE [i \in 1..n |-> ""]

TvIdle ==
    [mounted |-> FALSE, profile |-> FALSE, n |-> 0, draft |-> "none",
     answers |-> <<>>, isLoading |-> FALSE, timeRemaining |-> NoTimer,
     effect |-> FALSE, started |-> 0, evaluating |-> 0, saving |-> 0,
     saved |-> 0, sent |-> {}]

\* The first render; the timer effect is due after it.
InitTakeVars ==
    \E n \in 1..MaxQ, draft \in Drafts, t \in Timers, profile \in BOOLEAN :
        tv = [TvIdle EXCEPT !.mounted = TRUE, !.profile = profile, !.n = n,
                            !.draft = draft.kind,
                            !.answers = InitialAnswers(n, draft),
                            !.timeRemaining = t, !.effect = TRUE]

\* handleSubmit up to its first await: without a profile a toast and return;
\* else setIsLoading(true) and aiService.evaluateTest(test.questions, answers)
\* with the answers of the render handleSubmit was made in.
handleSubmit(v) ==
    IF ~v.profile THEN v
    ELSE [v EXCEPT !.isLoading = TRUE, !.started = @ + 1, !.evaluating = @ + 1,
                   !.sent = @ \cup {Len(v.answers)}]

\* updateAnswer(questionIndex, answer), from an input of question
\* questionIndex.  The new answers array makes a new handleSubmit, a
\* dependency of the timer effect.
updateAnswer ==
    /\ tv.mounted
    /\ \E questionIndex \in 1..tv.n, answer \in AnswerValues :
          tv' = [tv EXCEPT !.answers[questionIndex] = answer, !.effect = TRUE]
    /\ UNCHANGED <<endpointVars, kc, cl, wr, gen, st>>

\* The timer effect, run after a render in which timeRemaining or
\* handleSubmit changed: at 0 it calls handleSubmit, above 0 it sets the
\* interval.
TimerEffect ==
    /\ tv.mounted
    /\ tv.effect
    /\ tv.started < MaxSubmits
    /\ tv' = IF tv.timeRemaining = 0
             THEN handleSubmit([tv EXCEPT !.effect = FALSE])
             ELSE [tv EXCEPT !.effect = FALSE]
    /\ UNCHANGED <<endpointVars, kc, cl, wr, gen, st>>

\* The interval fires: setTimeRemaining(t => t - 1).
TimerTick ==
    /\ tv.mounted
    /\ ~tv.effect
    /\ tv.timeRemaining > 0
    /\ tv' = [tv EXCEPT !.timeRemaining = @ - 1, !.effect = TRUE]
    /\ UNCHANGED <<endpointVars, kc, cl, wr, gen, st>>

\* <button onClick={handleSubmit} disabled={isLoading}>
ClickSubmit ==
    /\ tv.mounted
    /\ ~tv.isLoading
    /\ tv.started < MaxSubmits
    /\ tv' = handleSubmit(tv)
    /\ UNCHANGED <<endpointVars, kc, cl, wr, gen, st>>

\* await aiService.evaluateTest(...) settles: with an evaluation, and
\* dataService.saveTestResult(result) is called; or with an error, caught,
\* and finally setIsLoading(false).
EvaluateSettles ==
    /\ tv.evaluating > 0
    /\ \/ tv' = [tv EXCEPT !.evaluating = @ - 1, !.saving = @ + 1]
       \/ tv' = [tv EXCEPT !.evaluating = @ - 1, !.isLoading = FALSE]
    /\ UNCHANGED <<endpointVars, kc, cl, wr, gen, st>>

\* await dataService.saveTestResult(result) settles: the row is in and
\* onSubmitTest(result) leaves the view for the results; or the insert failed.
\* finally setIsLoading(false).
SaveSettles ==
    /\ tv.saving > 0
    /\ \/ tv' = [tv EXCEPT !.saving = @ - 1, !.saved = @ + 1,
                           !.mounted = FALSE, !.isLoading = FALSE]
       \/ tv' = [tv EXCEPT !.saving = @ - 1, !.isLoading = FALSE]
    /\ UNCHANGED <<endpointVars, kc, cl, wr, gen, st>>

-----------------------------------------------------------------------------
(* save-test, update mode: the tests row and the questions of the test.    *)

\* The rows of table questions with test_id = test.id: the rows the test had
\* before the request ("old") and the rows made of test.questions ("new").
QuestionRows(from, count) == {[from |-> from, i |-> i] : i \in 1..count}

StIdle ==
    [pc |-> "idle", role |-> "teacher", owner |-> FALSE, previous |-> 0,
     next |-> 0, questions |-> {}, testRow |-> "old", status |-> 0]

\* A request that passed the checks of the caller and of the payload, with
\* test.id set: the caller is a teacher or an admin.
InitSaveVars ==
    \E role \in {"teacher", "admin"}, owner \in BOOLEAN,
       previous \in 0..MaxQ, next \in 1..MaxQ :
        st = [StIdle EXCEPT !.pc = "fetch", !.role = role, !.owner = owner,
                            !.previous = previous, !.next = next,
                            !.questions = QuestionRows("old", previous)]

\* select created_by: an error is thrown (500); a teacher who does not own
\* the test gets 403.
FetchTest ==
    /\ st.pc = "fetch"
    /\ \/ st' = [st EXCEPT !.pc = "done", !.status = 500]
       \/ st' = IF st.role # "admin" /\ ~st.owner
                THEN [st EXCEPT !.pc = "done", !.status = 403]
                ELSE [st EXCEPT !.pc = "update"]
    /\ UNCHANGED <<endpointVars, kc, cl, wr, gen, tv>>

\* update of the tests row: testError is thrown (500).
UpdateTest ==
    /\ st.pc = "update"
    /\ \/ st' = [st EXCEPT !.pc = "done", !.status = 500]
       \/ st' = [st EXCEPT !.pc = "delete", !.testRow = "new"]
    /\ UNCHANGED <<endpointVars, kc, cl, wr, gen, tv>>

\* await adminClient.from('questions').delete().eq('test_id', test.id): the
\* result is not looked at, so a failed delete goes on as well.
DeleteQuestions ==
    /\ st.pc = "delete"
    /\ \/ st' = [st EXCEPT !.pc = "insert", !.questions = {}]
       \/ st' = [st EXCEPT !.pc = "insert"]
    /\ UNCHANGED <<endpointVars, kc, cl, wr, gen, tv>>

\* insert of the new rows, one statement: all rows or questionsError, which
\* is thrown (500).
InsertQuestions ==
    /\ st.pc = "insert"
    /\ \/ st' = [st EXCEPT !.pc = "done", !.status = 200,
                           !.questions = @ \cup QuestionRows("new", st.next)]
       \/ st' = [st EXCEPT !.pc = "done", !.status = 500]
    /\ UNCHANGED <<endpointVars, kc, cl, wr, gen, tv>>

-----------------------------------------------------------------------------
(* aiService.evaluateTest: strings, the fence regex and JSON.parse.        *)
(* A string is a sequence of characters.                                   *)

\* The backtick character (U+0060).
Backtick == "BACKTICK"

Fence == <<Backtick, Backtick, Backtick>>

FenceJson == Fence \o <<"j", "s", "o", "n">>

\* The characters \s and trim() take as whitespace (those of the model).
IsSpace(c) == c \in {" ", "\n"}

StartsWith(s, pre) == Len(s) >= Len(pre) /\ SubSeq(s, 1, Len(pre)) = pre

EndsWith(s, suf) == Len(s) >= Len(suf) /\ SubSeq(s, Len(s) - Len(suf) + 1, Len(s)) = suf

RECURSIVE TrimStart(_)
TrimStart(s) == IF s # <<>> /\ IsSpace(Head(s)) THEN TrimStart(Tail(s)) ELSE s

RECURSIVE TrimEnd(_)
TrimEnd(s) ==
    IF s # <<>> /\ IsSpace(s[Len(s)]) THEN TrimEnd(SubSeq(s, 1, Len(s) - 1)) ELSE s

\* String.prototype.trim
Trim(s) == TrimEnd(TrimStart(s))

\* data.replace(/^FENCEjson\s*|FENCE$/g, ""), FENCE being three backticks:
\* without the m flag ^ is the start and $ the end of the whole string.  The first alternative matches at index 0
\* only and takes the whitespace that follows; the second matches the last
\* three characters of what is left to scan.
StripFence(s) ==
    LET rest == IF StartsWith(s, FenceJson)
                THEN TrimStart(SubSeq(s, Len(FenceJson) + 1, Len(s)))
                ELSE s
    IN  IF EndsWith(rest, Fence) THEN SubSeq(rest, 1, Len(rest) - Len(Fence)) ELSE rest

\* const cleanedString = data.replace(...).trim();
cleanedString(data) == Trim(StripFence(data))

\* The reply of the function as evaluateTest holds it.  type "object": an
\* object, with questionScores when hasScores; type "number": a JSON number.
\* Each question score is [score, maxMarks], maxMarks -1 while not attached.
NoMarks == 0 - 1

EmptyObject ==
    [type |-> "object", num |-> 0, hasScores |-> FALSE, questionScores |-> <<>>,
     overallScore |-> 0, hasTotals |-> FALSE, totalAwardedMarks |-> 0,
     totalPossibleMarks |-> 0]

NumberValue(n) == [EmptyObject EXCEPT !.type = "number", !.num = n]

IsDigits(s) == s # <<>> /\ \A i \in DOMAIN s : s[i] = "4"

\* JSON.parse on the strings of the model: whitespace around the value is
\* skipped; the value is an object without members or a number.
JsonParses(s) ==
    LET v == Trim(s)
    IN  \/ IsDigits(v)
        \/ /\ Len(v) >= 2
           /\ Head(v) = "{"
           /\ v[Len(v)] = "}"
           /\ \A i \in 2..(Len(v) - 1) : IsSpace(v[i])

JsonParse(s) ==
    LET v == Trim(s) IN IF IsDigits(v) THEN NumberValue(Len(v)) ELSE EmptyObject

-----------------------------------------------------------------------------
(* aiService.evaluateTest: the aggregation of marks.                       *)

RECURSIVE SumSeq(_)
SumSeq(s) == IF s = <<>> THEN 0 ELSE Head(s) + SumSeq(Tail(s))

\* A variant that truncates.
TruncPercent(x, y) == (100 * x) \div y

\* Math.round(x / y * 100) for x >= 0 and y > 0: the nearest integer, a half
\* rounded up.  Within the bounds of the model the double arithmetic of
\* JavaScript gives the exact quotient wherever it is a half.
RoundPercent(x, y) == (200 * x + y) \div (2 * y)

\* q.type === 'reading-comprehension' && q.comprehensionQuestions
HasSubQuestions(q) == q.type = "reading-comprehension" /\ q.hasComp

\* q.comprehensionQuestions.reduce((compTotal, compQ) => compTotal + (compQ.marks || 0), 0)
compTotal(q) == SumSeq(q.comprehensionQuestions)

\* evaluationData.questionScores.reduce((sum, score) => sum + (score.score || 0), 0)
totalAwardedMarks(questionScores) ==
    SumSeq([i \in DOMAIN questionScores |-> questionScores[i].score])

\* A variant that leaves the questions with sub-questions out of the total.
RECURSIVE totalPossibleMarksPlain(_)
totalPossibleMarksPlain(questions) ==
    IF questions = <<>> THEN 0
    ELSE LET q == questions[Len(questions)]
             total == totalPossibleMarksPlain(SubSeq(questions, 1, Len(questions) - 1))
         IN  IF HasSubQuestions(q) THEN total ELSE total + q.marks

\* questions.reduce((total, q) => ..., 0)
RECURSIVE totalPossibleMarks(_)
totalPossibleMarks(questions) ==
    IF questions = <<>> THEN 0
    ELSE LET q == questions[Len(questions)]
             total == totalPossibleMarks(SubSeq(questions, 1, Len(questions) - 1))
         IN  IF HasSubQuestions(q) THEN total + compTotal(q) ELSE total + q.marks

\* evaluationData.overallScore = totalPossibleMarks > 0 ? Math.round(...) : 0
overallScore(awarded, possible) ==
    IF possible > 0 THEN RoundPercent(awarded, possible) ELSE 0

\* A variant that takes the marks of the question itself for every slot.
maxMarksOwn(question) == question.marks

\* let maxMarks = question.marks; if (...) maxMarks = ...reduce(...)
maxMarks(question) ==
    IF HasSubQuestions(question) THEN compTotal(question) ELSE question.marks

\* if (evaluationData.questionScores && ....length === questions.length) { ... }
Aggregate(questions, ev) ==
    IF ev.hasScores /\ Len(ev.questionScores) = Len(questions)
    THEN LET awarded == totalAwardedMarks(ev.questionScores)
             possible == totalPossibleMarks(questions)
         IN  [ev EXCEPT !.hasTotals = TRUE,
                        !.totalAwardedMarks = awarded,
                        !.totalPossibleMarks = possible,
                        !.overallScore = overallScore(awarded, possible),
                        !.questionScores =
                            [i \in DOMAIN ev.questionScores |->
                                [ev.questionScores[i] EXCEPT
                                    !.maxMarks = maxMarks(questions[i])]]]
    ELSE ev

NoDataError == "AI evaluation returned no data."

InvalidFormatError == "AI returned an invalid response format. Please try submitting again."

Thrown(msg) == [ok |-> FALSE, error |-> msg, value |-> EmptyObject]

Returned(v) == [ok |-> TRUE, error |-> "", value |-> v]

NoOutcome == [ok |-> FALSE, error |-> "not called", value |-> EmptyObject]

StringData(chars) == [tag |-> "string", chars |-> chars, value |-> EmptyObject]

ObjectData(v) == [tag |-> "object", chars |-> <<>>, value |-> v]

\* aiService.evaluateTest, from the data supabase.functions.invoke returned.
evaluateTest(questions, data) ==
    IF data.tag = "string" /\ data.chars = <<>> THEN Thrown(NoDataError)
    ELSE IF data.tag = "string" /\ ~JsonParses(cleanedString(data.chars))
         THEN Thrown(InvalidFormatError)
    ELSE LET evaluationData == IF data.tag = "string"
                               THEN JsonParse(cleanedString(data.chars))
                               ELSE data.value
         IN  Returned(Aggregate(questions, evaluationData))

\* The questionScores block of services/aiService.ts: no totals, no maxMarks;
\* const percentage = maxMarks > 0 ? Math.round((qScore.score / maxMarks) * 100) : 0;
\* return { ...qScore, score: percentage };
AggregateEarlier(questions, ev) ==
    IF ev.hasScores /\ Len(ev.questionScores) = Len(questions)
    THEN LET awarded == totalAwardedMarks(ev.questionScores)
             possible == totalPossibleMarks(questions)
         IN  [ev EXCEPT !.overallScore = overallScore(awarded, possible),
                        !.questionScores =
                            [i \in DOMAIN ev.questionScores |->
                                [ev.questionScores[i] EXCEPT
                                    !.score =
                                        IF maxMarks(questions[i]) > 0
                                        THEN RoundPercent(ev.questionScores[i].score,
                                                          maxMarks(questions[i]))
                                        ELSE 0]]]
    ELSE ev

\* aiService.evaluateTest as services/aiService.ts has it.
evaluateTestEarlier(questions, data) ==
    IF data.tag = "string" /\ data.chars = <<>> THEN Thrown(NoDataError)
    ELSE IF data.tag = "string" /\ ~JsonParses(cleanedString(data.chars))
         THEN Thrown(InvalidFormatError)
    ELSE LET evaluationData == IF data.tag = "string"
                               THEN JsonParse(cleanedString(data.chars))
                               ELSE data.value
         IN  Returned(AggregateEarlier(questions, evaluationData))

-----------------------------------------------------------------------------
(* SpecClient: evaluateTest on the questions of a test and a reply that    *)
(* arrives as an object.  SpecFence: evaluateTest on a reply that arrives  *)
(* as a string, unwrapped and wrapped in a json fence.                     *)

\* Marks of a question: none, some, the most.
Marks == {0, MaxMarks - 2, MaxMarks}

\* Marks of a sub-question.
SubMarks == {MaxMarks - 3, MaxMarks - 2}

SubLists == UNION {[1..n -> SubMarks] : n \in 0..MaxSub}

\* Plain questions; comprehension questions with sub-questions; and the two odd
\* shapes: a comprehension question without the list, a plain one with it.
Questions ==
    [type : {"short-answer"}, marks : Marks, hasComp : {FALSE},
     comprehensionQuestions : {<<>>}]
    \cup [type : {"reading-comprehension"}, marks : {MaxMarks}, hasComp : {TRUE},
          comprehensionQuestions : SubLists]
    \cup [type : {"reading-comprehension"}, marks : {MaxMarks}, hasComp : {FALSE},
          comprehensionQuestions : {<<>>}]
    \cup [type : {"short-answer"}, marks : {MaxMarks}, hasComp : {TRUE},
          comprehensionQuestions : {<<MaxMarks - 2, MaxMarks - 3>>}]

QuestionLists == UNION {[1..n -> Questions] : n \in 0..MaxQ}

\* Raw marks a provider awards.
Scores == {0, MaxMarks - 1, MaxMarks}

ScoreLists ==
    UNION {[1..n -> [score : Scores, maxMarks : {NoMarks}]] : n \in 0..MaxQ}

\* Replies: an object with or without questionScores.
Replies ==
    {EmptyObject} \cup {[EmptyObject EXCEPT !.hasScores = TRUE, !.questionScores = qs] :
                           qs \in ScoreLists}

RawChars == {Backtick, " ", "\n", "{", "}", "4"}

RawTexts == UNION {[1..n -> RawChars] : n \in 1..MaxRawLen}

Pads == UNION {[1..n -> {" ", "\n"}] : n \in 0..MaxPad}

\* raw inside a json fence: whitespace before the fence, after the opening
\* fence, before the closing fence and after it.
Fenced(raw, lead, inner1, inner2, trail) ==
    lead \o FenceJson \o inner1 \o raw \o inner2 \o Fence \o trail

ClIdle ==
    [phase |-> "idle", questions |-> <<>>, data |-> StringData(<<>>),
     fenced |-> StringData(<<>>), pads |-> <<>>, out |-> NoOutcome,
     outFenced |-> NoOutcome, outEarlier |-> NoOutcome]

InitClientVars ==
    \E qs \in QuestionLists, reply \in Replies :
        cl = [ClIdle EXCEPT !.phase = "called", !.questions = qs,
                            !.data = ObjectData(reply)]

InitFenceVars ==
    \E raw \in RawTexts, lead, inner1, inner2, trail \in Pads :
        cl = [ClIdle EXCEPT !.phase = "called",
                            !.data = StringData(raw),
                            !.pads = <<lead, inner1, inner2, trail>>,
                            !.fenced = StringData(Fenced(raw, lead, inner1, inner2, trail))]

\* One call of evaluateTest.
EvaluateTest ==
    /\ cl.phase = "called"
    /\ cl.data.tag = "object"
    /\ cl' = [cl EXCEPT !.phase = "returned",
                        !.out = evaluateTest(cl.questions, cl.data)]
    /\ UNCHANGED <<endpointVars, kc, wr, gen, tv, st>>

\* One call of evaluateTest in the revision of services/aiService.ts.
EvaluateTestEarlier ==
    /\ cl.phase = "called"
    /\ cl.data.tag = "object"
    /\ cl' = [cl EXCEPT !.phase = "returned",
                        !.outEarlier = evaluateTestEarlier(cl.questions, cl.data)]
    /\ UNCHANGED <<endpointVars, kc, wr, gen, tv, st>>

\* evaluateTest on the unwrapped text and on the fenced text.
EvaluateBoth ==
    /\ cl.phase = "called"
    /\ cl.data.tag = "string"
    /\ cl' = [cl EXCEPT !.phase = "returned",
                        !.out = evaluateTest(cl.questions, cl.data),
                        !.outFenced = evaluateTest(cl.questions, cl.fenced)]
    /\ UNCHANGED <<endpointVars, kc, wr, gen, tv, st>>

-----------------------------------------------------------------------------
(* The specifications.                                                     *)

EndpointIdle ==
    /\ env = {}
    /\ cache = [h \in Hashes |-> NoRow]
    /\ fault = FALSE
    /\ pc = [r \in Reqs |-> "idle"]
    /\ body = [r \in Reqs |-> CHOOSE b \in ReqBodies : TRUE]
    /\ prov = [r \in Reqs |-> 1]
    /\ attempt = [r \in Reqs |-> 0]
    /\ wait = [r \in Reqs |-> 0]
    /\ text = [r \in Reqs |-> NoText]
    /\ resp = [r \in Reqs |-> NoResp]
    /\ calls = [r \in Reqs |-> [p \in Providers |-> 0]]
    /\ reason = [r \in Reqs |-> [p \in Providers |-> "none"]]
    /\ before = [r \in Reqs |-> {}]

Init == InitEndpointVars /\ kc = KcIdle /\ cl = ClIdle /\ wr = WrIdle /\ gen = GenIdle /\ tv = TvIdle /\ st = StIdle

Next ==
    \E r \in Reqs :
        \/ Receive(r)
        \/ CacheRead(r)
        \/ SkipProvider(r)
        \/ CallProvider(r)
        \/ ProviderReturns(r)
        \/ BackoffElapsed(r)
        \/ AllFailed(r)
        \/ SaveAndRespond(r)

Spec == Init /\ [][Next]_vars

InitKey == EndpointIdle /\ InitKeyVars /\ cl = ClIdle /\ wr = WrIdle /\ gen = GenIdle /\ tv = TvIdle /\ st = StIdle

NextKey == ComputeKeys

SpecKey == InitKey /\ [][NextKey]_vars

\* One request on its own, against a table with any rows.  Every step of the
\* handler is the continuation of an awaited promise or of a timer: as long
\* as each provider call settles, a step that can be taken is taken.
InitSingle ==
    /\ env \in SUBSET Providers
    /\ cache \in [Hashes -> {NoRow} \cup {[by |-> p] : p \in Providers}]
    /\ fault = FALSE
    /\ pc = [r \in Reqs |-> IF r = 1 THEN "start" ELSE "idle"]
    /\ body = [r \in Reqs |-> CHOOSE b \in ReqBodies : TRUE]
    /\ prov = [r \in Reqs |-> 1]
    /\ attempt = [r \in Reqs |-> 0]
    /\ wait = [r \in Reqs |-> 0]
    /\ text = [r \in Reqs |-> NoText]
    /\ resp = [r \in Reqs |-> NoResp]
    /\ calls = [r \in Reqs |-> [p \in Providers |-> 0]]
    /\ reason = [r \in Reqs |-> [p \in Providers |-> "none"]]
    /\ before = [r \in Reqs |-> {}]
    /\ kc = KcIdle /\ cl = ClIdle /\ wr = WrIdle /\ gen = GenIdle /\ tv = TvIdle /\ st = StIdle

SpecSingle == InitSingle /\ [][Next]_vars /\ WF_vars(Next)

InitClient == EndpointIdle /\ kc = KcIdle /\ InitClientVars /\ wr = WrIdle /\ gen = GenIdle /\ tv = TvIdle /\ st = StIdle

NextClient == EvaluateTest \/ EvaluateTestEarlier

SpecClient == InitClient /\ [][NextClient]_vars

InitFence == EndpointIdle /\ kc = KcIdle /\ InitFenceVars /\ wr = WrIdle /\ gen = GenIdle /\ tv = TvIdle /\ st = StIdle

NextFence == EvaluateBoth

SpecFence == InitFence /\ [][NextFence]_vars

InitRetry == EndpointIdle /\ kc = KcIdle /\ cl = ClIdle /\ InitRetryVars /\ gen = GenIdle /\ tv = TvIdle /\ st = StIdle

NextRetry == RetryCall \/ RetrySettle \/ RetryTimer

SpecRetry == InitRetry /\ [][NextRetry]_vars

\* The Evaluate requests are idle; the environment has any set of keys and
\* the table any rows.
InitGenerate ==
    /\ env \in SUBSET Providers
    /\ cache \in [Hashes -> {NoRow} \cup {[by |-> p] : p \in Providers}]
    /\ fault = FALSE
    /\ pc = [r \in Reqs |-> "idle"]
    /\ body = [r \in Reqs |-> CHOOSE b \in ReqBodies : TRUE]
    /\ prov = [r \in Reqs |-> 1]
    /\ attempt = [r \in Reqs |-> 0]
    /\ wait = [r \in Reqs |-> 0]
    /\ text = [r \in Reqs |-> NoText]
    /\ resp = [r \in Reqs |-> NoResp]
    /\ calls = [r \in Reqs |-> [p \in Providers |-> 0]]
    /\ reason = [r \in Reqs |-> [p \in Providers |-> "none"]]
    /\ before = [r \in Reqs |-> {}]
    /\ kc = KcIdle /\ cl = ClIdle /\ wr = WrIdle
    /\ \E fn \in GenerateFunctions : gen = [GenIdle EXCEPT !.pc = "fallback", !.fn = fn]
    /\ tv = TvIdle /\ st = StIdle

NextGenerate ==
    \/ GenerateSkipProvider
    \/ GenerateCallProvider
    \/ GenerateProviderReturns
    \/ GenerateAllFailed

SpecGenerate == InitGenerate /\ [][NextGenerate]_vars

InitTake ==
    /\ EndpointIdle /\ kc = KcIdle /\ cl = ClIdle /\ wr = WrIdle /\ gen = GenIdle
    /\ st = StIdle
    /\ InitTakeVars

NextTake ==
    \/ updateAnswer
    \/ TimerEffect
    \/ TimerTick
    \/ ClickSubmit
    \/ EvaluateSettles
    \/ SaveSettles

SpecTake == InitTake /\ [][NextTake]_vars

InitSave ==
    /\ EndpointIdle /\ kc = KcIdle /\ cl = ClIdle /\ wr = WrIdle /\ gen = GenIdle
    /\ tv = TvIdle
    /\ InitSaveVars

NextSave ==
    \/ FetchTest
    \/ UpdateTest
    \/ DeleteQuestions
    \/ InsertQuestions

SpecSave == InitSave /\ [][NextSave]_vars

-----------------------------------------------------------------------------
(* Properties of the cache key (SpecKey).                                  *)

C23_KeyOfSubmissionOnly ==
    kc.phase = "hashed" =>
        /\ (kc.a.questions = kc.b.questions /\ kc.a.answers = kc.b.answers)
              => kc.ka = kc.kb
        /\ kc.ka = Sha256Hex(submissionString(
                        [top |-> <<"questions", "answers">>, sentAt |-> "",
                         questions |-> kc.a.questions, answers |-> kc.a.answers]))

C23_Witness ==
    /\ kc.phase = "hashed"
    /\ kc.a.sentAt = "" /\ kc.b.sentAt = "1"
    /\ kc.a.top # kc.b.top
    /\ kc.a.questions = kc.b.questions
    /\ kc.a.answers = kc.b.answers
    /\ kc.a.answers[1].t = "map"
    /\ kc.ka = kc.kb

-----------------------------------------------------------------------------
(* Properties of the clever-endpoint handler (Spec).                       *)

Done(r) == pc[r] = "done"

TotalCalls(r) == calls[r]["Gemini"] + calls[r]["Groq"] + calls[r]["OpenAI"]

ProviderIndex(p) == CHOOSE i \in DOMAIN ProviderNames : ProviderNames[i] = p

\* r2 arrived after r1 was answered, with the same body, and no cache read or
\* write failed.
Successive(r1, r2) ==
    /\ Done(r1) /\ Done(r2)
    /\ r1 \in before[r2]
    /\ body[r1] = body[r2]
    /\ ~fault

\* C2, as the spec states it: two successive Evaluate calls with an identical
\* request and a working cache, the first of which gets a reply that parses,
\* issue exactly one provider call in total.
C2_ExactlyOneProviderCall ==
    \A r1, r2 \in Reqs :
        (/\ Successive(r1, r2)
         /\ resp[r1].status = 200 /\ resp[r1].text.kind = "json"
         /\ resp[r2].status = 200)
            => TotalCalls(r1) + TotalCalls(r2) = 1

\* C2, amended: with a working cache, when the first of two successive
\* Evaluate calls with an identical request gets a provider reply that parses
\* as JSON, exactly one provider call in total returns a reply: the first call
\* stores the result and the second call is answered with it from the cache
\* without any provider call.
C2_SecondServedFromCache ==
    \A r1, r2 \in Reqs :
        (Successive(r1, r2) /\ resp[r1].status = 200 /\ resp[r1].text.kind = "json")
            => /\ text[r1] # NoText
               /\ text[r2] = NoText
               /\ TotalCalls(r2) = 0
               /\ cache[CacheKey(body[r1])] = ParseResult(resp[r1].text)
               /\ resp[r2] = OkResponse(StringifyResult(ParseResult(resp[r1].text)))

C2_Witness ==
    /\ Successive(1, 2)
    /\ resp[1].status = 200
    /\ resp[1].text.kind = "json"
    /\ TotalCalls(1) > 1
    /\ TotalCalls(2) = 0
    /\ resp[2].status = 200

\* C3: once a provider has returned a text, no provider after it is called,
\* and that text is what the handler responds with: when Gemini fails and Groq
\* succeeds the response is Groq's text and OpenAI is never called.
C3_FirstSuccessWins ==
    \A r \in Reqs :
        text[r] # NoText =>
            /\ calls[r][text[r].by] > 0
            /\ \A i \in DOMAIN ProviderNames :
                  i > ProviderIndex(text[r].by) => calls[r][ProviderNames[i]] = 0
            /\ \A i \in DOMAIN ProviderNames :
                  (i < ProviderIndex(text[r].by) /\ ProviderNames[i] \in env)
                      => reason[r][ProviderNames[i]] # "none"
            /\ Done(r) => resp[r] = OkResponse(text[r])

C3_Witness ==
    /\ env = Providers
    /\ Done(1)
    /\ reason[1]["Gemini"] # "none"
    /\ resp[1].status = 200
    /\ resp[1].text.by = "Groq"
    /\ calls[1]["OpenAI"] = 0

\* Every configured provider was tried by r and failed.
Exhausted(r) ==
    /\ Done(r)
    /\ env # {}
    /\ \A p \in env : calls[r][p] > 0 /\ reason[r][p] # "none"

ExhaustedResponse == ErrorResponse(AllFailedError)

C6_BackoffBounds ==
    /\ [](\A r \in Reqs :
            pc[r] = "backoff" =>
                /\ wait[r] >= 1000 * (2 ^ attempt[r])
                /\ wait[r] < 1000 * (2 ^ attempt[r]) + 1000)
    /\ [][\A r \in Reqs : (wait[r] > 0 /\ wait'[r] > 0) => wait'[r] >= wait[r]]_vars

C6_Witness ==
    /\ pc[1] = "backoff"
    /\ attempt[1] = 1
    /\ wait[1] = 2999

\* C12: a failure of the cache read is a miss (the request goes on to the
\* providers, nothing is responded) and a failure of the cache write changes
\* nothing (the response is the provider's text, status 200); the only error
\* a response carries is the one of generateWithFallback, never a cache error.
C12_CacheFailureNotFatal ==
    /\ [](\A r \in Reqs :
            Done(r) =>
                /\ resp[r].error \in {NoError, AllFailedError}
                /\ resp[r].status = 500 => (prov[r] = PastLast /\ text[r] = NoText)
                /\ text[r] # NoText => resp[r] = OkResponse(text[r]))
    /\ [][\A r \in Reqs :
            (pc[r] = "read" /\ pc'[r] # "read" /\ ~fault /\ fault')
                => (pc'[r] = "fallback" /\ resp'[r] = resp[r] /\ cache' = cache)]_vars
    /\ [][\A r \in Reqs :
            (pc[r] = "save" /\ pc'[r] # "save" /\ ~fault /\ fault')
                => (/\ pc'[r] = "done"
                    /\ resp'[r] = OkResponse(text[r])
                    /\ cache' = cache)]_vars

\* The second request found the cache unreadable although the first had
\* stored its result, and was answered by a provider.
C12_Witness ==
    /\ fault
    /\ Done(1) /\ Done(2)
    /\ 1 \in before[2]
    /\ body[1] = body[2]
    /\ cache[CacheKey(body[1])] = ParseResult(text[1])
    /\ text[1].by = "Gemini"
    /\ text[2].by = "Groq"
    /\ resp[2] = OkResponse(text[2])

\* C14: a provider whose key is missing is never called and no failure is
\* recorded for it; passing over it takes no attempt of withRetry and leads to
\* the next provider; and when a configured provider returns a text the
\* response is that text with status 200, whatever keys are missing.
C14_UnconfiguredSkipped ==
    /\ [](\A r \in Reqs :
            /\ \A p \in Providers \ env :
                  calls[r][p] = 0 /\ reason[r][p] = "none"
            /\ (Done(r) /\ text[r] # NoText)
                  => (text[r].by \in env /\ resp[r] = OkResponse(text[r])))
    /\ [][\A r \in Reqs :
            (/\ pc[r] = "fallback"
             /\ prov[r] < PastLast
             /\ prov'[r] # prov[r]
             /\ ProviderNames[prov[r]] \notin env)
                => /\ prov'[r] = prov[r] + 1
                   /\ pc'[r] = "fallback"
                   /\ attempt'[r] = attempt[r]
                   /\ calls'[r] = calls[r]
                   /\ reason'[r] = reason[r]]_vars

C14_Witness ==
    /\ env = {"Groq"}
    /\ Done(1)
    /\ calls[1]["Gemini"] = 0
    /\ reason[1]["Gemini"] = "none"
    /\ calls[1]["Groq"] = 1
    /\ resp[1].status = 200
    /\ resp[1].text.by = "Groq"

\* C15: a provider is left because of a non-2xx response only after withRetry
\* has used all its attempts on it: by then it was called Retries times.
C15_HttpErrorRetried ==
    \A r \in Reqs : \A p \in Providers :
        reason[r][p] = "http" => calls[r][p] = Retries

\* C17: when generateWithFallback has passed the last provider without a
\* text, every provider having failed or been skipped, the response has a
\* status outside 200..299 and its body is an error object with a message,
\* and holds no evaluation.
C17_FailureIsErrorResponse ==
    \A r \in Reqs :
        (Done(r) /\ prov[r] = PastLast) =>
            /\ resp[r].status \notin 200..299
            /\ resp[r].status # 0
            /\ resp[r].error # NoError
            /\ resp[r].error.message # ""
            /\ resp[r].text = NoText

C17_Witness ==
    /\ env = {"Gemini", "OpenAI"}
    /\ Done(1)
    /\ prov[1] = PastLast
    /\ calls[1] = [p \in Providers |-> IF p = "Groq" THEN 0 ELSE Retries]
    /\ resp[1].status = 500
    /\ resp[1].error.message # ""

\* C18: within one request the providers are called in the order Gemini,
\* Groq, OpenAI, and a provider is called only when the one before it was
\* skipped for its missing key or all the attempts of its withRetry were used
\* up; a request has at most one provider call in flight, to the provider
\* generateWithFallback is at.
C18_InOrderAfterExhaustion ==
    \A r \in Reqs :
        /\ \A i \in 1..(Len(ProviderNames) - 1) :
              calls[r][ProviderNames[i + 1]] > 0 =>
                  /\ prov[r] > i
                  /\ \/ /\ ProviderNames[i] \notin env
                        /\ calls[r][ProviderNames[i]] = 0
                     \/ calls[r][ProviderNames[i]] = Retries
        /\ pc[r] = "inflight" =>
              /\ prov[r] < PastLast
              /\ calls[r][ProviderNames[prov[r]]] = attempt[r] + 1

\* C19: a text that does not parse is returned like any other: the provider
\* that gave it is not called again and no failure is recorded for it, no
\* provider after it is called, and the response is that text, status 200.
C19_MalformedReplySurfaces ==
    /\ [](\A r \in Reqs :
            text[r].kind = "garbage" =>
                /\ prov[r] = ProviderIndex(text[r].by)
                /\ calls[r][text[r].by] = attempt[r] + 1
                /\ reason[r][text[r].by] = "none"
                /\ \A i \in DOMAIN ProviderNames :
                      i > prov[r] => calls[r][ProviderNames[i]] = 0
                /\ pc[r] \in {"save", "done"}
                /\ Done(r) => (resp[r].status = 200 /\ resp[r].text = text[r]))
    /\ [][\A r \in Reqs :
            text[r].kind = "garbage" => (calls'[r] = calls[r] /\ text'[r] = text[r])]_vars

C19_Witness ==
    /\ env = Providers
    /\ Done(1)
    /\ text[1] = [by |-> "Gemini", kind |-> "garbage"]
    /\ calls[1] = [p \in Providers |-> IF p = "Gemini" THEN 1 ELSE 0]
    /\ resp[1] = OkResponse(text[1])

\* C20: a row of evaluations_cache, once there, keeps its result and stays:
\* no step of any request changes or removes it, however the requests
\* interleave.
C20_EntryNeverChanges ==
    [][\A h \in Hashes : cache[h] # NoRow => cache'[h] = cache[h]]_vars

\* Two overlapping requests with one body both missed the cache and got
\* texts from different providers; the row is the one stored first.
C20_Witness ==
    /\ ~fault
    /\ Done(1) /\ Done(2)
    /\ body[1] = body[2]
    /\ before[1] = {} /\ before[2] = {}
    /\ text[1] = [by |-> "Gemini", kind |-> "json"]
    /\ text[2] = [by |-> "Groq", kind |-> "json"]
    /\ cache[CacheKey(body[1])] = ParseResult(text[1])

\* C21: when two requests with one body both got a text that parses from a
\* provider (with a working cache this happens only when they overlap and
\* both miss), both are answered with status 200 and their own provider's
\* text, and the row of their hash holds the result of one of them: the
\* second insert fails and is passed over.
C21_DuplicateInsertTolerated ==
    \A r1, r2 \in Reqs :
        (/\ r1 # r2
         /\ Done(r1) /\ Done(r2)
         /\ body[r1] = body[r2]
         /\ text[r1].kind = "json" /\ text[r2].kind = "json")
            => /\ resp[r1] = OkResponse(text[r1])
               /\ resp[r2] = OkResponse(text[r2])
               /\ TotalCalls(r1) > 0 /\ TotalCalls(r2) > 0
               /\ ~fault => /\ before[r1] = {} /\ before[r2] = {}
                             /\ cache[CacheKey(body[r1])]
                                   \in {ParseResult(text[r1]), ParseResult(text[r2])}

C21_Witness ==
    /\ ~fault
    /\ Done(1) /\ Done(2)
    /\ body[1] = body[2]
    /\ text[1] = [by |-> "Gemini", kind |-> "json"]
    /\ text[2] = text[1]
    /\ TotalCalls(1) = 1 /\ TotalCalls(2) = 1
    /\ resp[1].status = 200 /\ resp[2].status = 200

\* C24: a request whose provider calls all settle ends, with status 200 or
\* with the error of exhaustion; generateWithFallback never goes back to a
\* provider, calls each provider at most Retries = 3 times and so makes at
\* most 9 calls.
C24_Terminates ==
    /\ <>Done(1)
    /\ [](\A p \in Providers : calls[1][p] <= 3)
    /\ [](TotalCalls(1) <= 9)
    /\ [](\A p \in Providers \ env : calls[1][p] = 0)
    /\ [](Done(1) => \/ (resp[1].status = 200 /\ resp[1].text # NoText)
                      \/ (resp[1] = ErrorResponse(AllFailedError) /\ prov[1] = PastLast))
    /\ [][prov'[1] >= prov[1]]_vars

C24_Witness ==
    /\ Done(1)
    /\ env = Providers
    /\ TotalCalls(1) = 9
    /\ resp[1] = ErrorResponse(AllFailedError)

\* C27: a request whose provider text did not parse is answered with that
\* text and status 200 and leaves no row: the row of its hash, if there is
\* one, holds the parsed text of another request; so a request with the same
\* body that arrives later reads no row and calls a provider.
C27_UnparsedNeverCached ==
    \A r \in Reqs :
        (Done(r) /\ text[r].kind = "garbage") =>
            /\ resp[r] = OkResponse(text[r])
            /\ cache[CacheKey(body[r])] # NoRow =>
                  \E q \in Reqs \ {r} :
                      /\ body[q] = body[r]
                      /\ Done(q) /\ text[q].kind = "json"
                      /\ cache[CacheKey(body[r])] = ParseResult(text[q])
            /\ \A q \in Reqs :
                  (Done(q) /\ r \in before[q] /\ body[q] = body[r]) =>
                      TotalCalls(q) > 0

\* Both requests, one after the other, got a text that does not parse.
C27_Witness ==
    /\ Successive(1, 2)
    /\ text[1] = [by |-> "Gemini", kind |-> "garbage"]
    /\ resp[1] = OkResponse(text[1])
    /\ text[2] = [by |-> "Gemini", kind |-> "garbage"]
    /\ calls[2]["Gemini"] = 1
    /\ cache[CacheKey(body[1])] = NoRow

\* C28: a row is inserted only by the last step of a request that got a text
\* from a provider it called, for a hash that had no row; the step that ends
\* a request with an error leaves the table as it is, and so does every
\* other step.
C28_InsertOnlyAfterSuccess ==
    [][\A h \in Hashes :
          cache'[h] # cache[h] =>
              \E r \in Reqs :
                  /\ pc[r] = "save" /\ pc'[r] = "done"
                  /\ h = CacheKey(body[r])
                  /\ cache[h] = NoRow
                  /\ text[r].kind = "json"
                  /\ calls[r][text[r].by] > 0
                  /\ resp'[r] = OkResponse(text[r])
                  /\ cache'[h] = ParseResult(text[r])]_vars

\* Request 1 called providers and failed, and its hash has no row; request 2
\* got a text that parses and left the row of its hash.
C28_Witness ==
    /\ Done(1) /\ Done(2)
    /\ resp[1] = ErrorResponse(AllFailedError)
    /\ TotalCalls(1) > 0
    /\ cache[CacheKey(body[1])] = NoRow
    /\ resp[2].status = 200
    /\ text[2].kind = "json"
    /\ cache[CacheKey(body[2])] = ParseResult(text[2])

-----------------------------------------------------------------------------
(* Properties of withRetry (SpecRetry).                                    *)

\* C16: withRetry calls fn at most retries times, 3 by default; it returns
\* the value of the first call that resolves, every call before it having
\* rejected and none made after it; and when the last call rejects it throws
\* the error of that very call.
C16_WithRetry ==
    /\ wr.calls <= wr.retries
    /\ Retries = 3
    /\ wr.pc = "done" =>
          /\ wr.out.of = wr.calls
          /\ \A k \in 1..(wr.calls - 1) : wr.fn[k] = "reject"
          /\ wr.out.kind = "value" => wr.fn[wr.calls] = "resolve"
          /\ wr.out.kind = "error" =>
                (wr.calls = wr.retries /\ wr.fn[wr.calls] = "reject")
          /\ wr.out.kind \in {"value", "error"}

C16_Witness ==
    /\ wr.pc = "done"
    /\ wr.retries = 3
    /\ wr.fn = <<"reject", "reject", "reject">>
    /\ wr.calls = 3
    /\ wr.out = ErrorOf(3)

-----------------------------------------------------------------------------
(* Properties of the generation functions (SpecGenerate).                  *)

\* C22: a request to a generation function goes through the providers in
\* their order and leaves evaluations_cache as it is; its answer never comes
\* from the table: a text in the response is the text of a provider call of
\* this request, whatever rows the table holds.
C22_GenerateLeavesCache ==
    /\ [][cache' = cache /\ fault' = fault]_vars
    /\ [](gen.pc = "done" =>
            /\ gen.resp.status = 200 =>
                  /\ gen.text # NoText
                  /\ gen.resp.text.by = gen.text.by
                  /\ gen.calls[gen.text.by] = 1
                  /\ gen.prov = ProviderIndex(gen.text.by)
            /\ gen.resp.status # 200 =>
                  /\ gen.resp = ErrorResponse(AllFailedError)
                  /\ gen.prov = PastLast
                  /\ \A p \in Providers : gen.calls[p] = IF p \in env THEN 1 ELSE 0)

C22_Witness ==
    /\ gen.pc = "done"
    /\ gen.fn = "gemini-regenerate-question-flash"
    /\ \A h \in Hashes : cache[h] = [by |-> "Gemini"]
    /\ env = Providers
    /\ gen.resp.status = 200
    /\ gen.text = [by |-> "Groq", kind |-> "json"]
    /\ gen.calls["Gemini"] = 1

-----------------------------------------------------------------------------
(* Properties of evaluateTest (SpecClient, SpecFence).                     *)

\* evaluateTest returned a result on which the aggregation ran.
Aggregated == cl.phase = "returned" /\ cl.out.ok /\ cl.out.value.hasTotals

SlotMaxMarks == [i \in DOMAIN cl.out.value.questionScores |->
                    cl.out.value.questionScores[i].maxMarks]

\* C7: the maxMarks of a slot is the marks of the question for a plain
\* question and the sum of the marks of the sub-questions for a comprehension
\* question that has some; totalPossibleMarks is the sum of the maxMarks.
C7_MaxMarksPerSlot ==
    Aggregated =>
        /\ \A i \in DOMAIN cl.questions :
              LET q == cl.questions[i]
              IN  /\ q.type # "reading-comprehension"
                        => SlotMaxMarks[i] = q.marks
                  /\ (/\ q.type = "reading-comprehension"
                      /\ q.hasComp
                      /\ q.comprehensionQuestions # <<>>)
                        => SlotMaxMarks[i] = SumSeq(q.comprehensionQuestions)
        /\ cl.out.value.totalPossibleMarks = SumSeq(SlotMaxMarks)

C7_Witness ==
    /\ Aggregated
    /\ Len(cl.questions) = 2
    /\ cl.questions[1].type = "reading-comprehension"
    /\ cl.questions[1].marks = 5
    /\ cl.questions[1].comprehensionQuestions = <<3, 2>>
    /\ cl.questions[2].type = "short-answer"
    /\ SlotMaxMarks = <<5, cl.questions[2].marks>>
    /\ cl.out.value.totalPossibleMarks = 5 + cl.questions[2].marks

\* C8: overallScore is totalAwardedMarks / totalPossibleMarks * 100 rounded to
\* the nearest integer (a half upwards) when totalPossibleMarks > 0, and 0
\* when totalPossibleMarks is 0.
C8_OverallScore ==
    Aggregated =>
        LET a == cl.out.value.totalAwardedMarks
            m == cl.out.value.totalPossibleMarks
            o == cl.out.value.overallScore
        IN  /\ m = 0 => o = 0
            /\ m > 0 => /\ 2 * m * o - m <= 200 * a
                        /\ 200 * a < 2 * m * o + m

C8_Witness ==
    /\ Aggregated
    /\ cl.questions # <<>>
    /\ cl.out.value.totalAwardedMarks = 0
    /\ cl.out.value.totalPossibleMarks = 0
    /\ cl.out.value.overallScore = 0

\* C9: the result evaluateTest returns carries totalAwardedMarks, the sum of
\* the scores of its questionScores, and totalPossibleMarks, the sum of the
\* maximum marks of the questions.
C9_ResultCarriesTotals ==
    (cl.phase = "returned" /\ cl.out.ok /\ cl.out.value.hasScores) =>
        /\ cl.out.value.hasTotals
        /\ cl.out.value.totalAwardedMarks
              = SumSeq([i \in DOMAIN cl.out.value.questionScores |->
                            cl.out.value.questionScores[i].score])
        /\ cl.out.value.totalPossibleMarks
              = SumSeq([i \in DOMAIN cl.questions |->
                            IF /\ cl.questions[i].type = "reading-comprehension"
                               /\ cl.questions[i].hasComp
                            THEN SumSeq(cl.questions[i].comprehensionQuestions)
                            ELSE cl.questions[i].marks])

\* C10: a text inside a json fence, with whatever whitespace around the
\* fence, gives the same outcome as the text without the fence.
C10_FenceTransparent ==
    cl.phase = "returned" => cl.outFenced = cl.out

\* C11: in the result evaluateTest returns, every question score carries the
\* maxMarks of its question and its score is the raw marks of the reply; the
\* score is never replaced by a percentage.  Stated of both revisions of
\* evaluateTest in the repository.
C11_ScoreStaysRaw ==
    \A o \in {cl.out, cl.outEarlier} :
        (/\ cl.phase = "returned"
         /\ o.ok
         /\ o.value.hasScores
         /\ Len(o.value.questionScores) = Len(cl.questions))
            => \A i \in DOMAIN o.value.questionScores :
                  /\ o.value.questionScores[i].score
                        = cl.data.value.questionScores[i].score
                  /\ o.value.questionScores[i].maxMarks = maxMarks(cl.questions[i])

\* C13: every result evaluateTest returns has a questionScores with one score
\* per question; a reply without questionScores, or with another number of
\* scores, is thrown as an error and not returned.
C13_ResultHasScorePerQuestion ==
    (cl.phase = "returned" /\ cl.out.ok) =>
        /\ cl.out.value.hasScores
        /\ Len(cl.out.value.questionScores) = Len(cl.questions)

\* C29: the aggregation sums the scores of the reply as they are; when every
\* score lies between 0 and the maxMarks of its slot, totalAwardedMarks lies
\* between 0 and totalPossibleMarks and overallScore between 0 and 100.
C29_TotalsWithinRange ==
    Aggregated =>
        LET v == cl.out.value
            reply == cl.data.value.questionScores
        IN  /\ \A i \in DOMAIN reply : v.questionScores[i].score = reply[i].score
            /\ v.totalAwardedMarks = SumSeq([i \in DOMAIN reply |-> reply[i].score])
            /\ (\A i \in DOMAIN reply :
                    0 <= reply[i].score /\ reply[i].score <= SlotMaxMarks[i])
                  => /\ 0 <= v.totalAwardedMarks
                     /\ v.totalAwardedMarks <= v.totalPossibleMarks
                     /\ 0 <= v.overallScore
                     /\ v.overallScore <= 100

\* A comprehension question with full marks and a plain question one mark
\* short of its five.
C29_Witness ==
    /\ Aggregated
    /\ Len(cl.questions) = 2
    /\ cl.questions[1].type = "reading-comprehension"
    /\ cl.questions[1].comprehensionQuestions = <<2, 3>>
    /\ cl.questions[2].type = "short-answer"
    /\ SlotMaxMarks = <<5, 5>>
    /\ cl.out.value.questionScores[1].score = 5
    /\ cl.out.value.questionScores[2].score = 4
    /\ cl.out.value.totalAwardedMarks = 9
    /\ cl.out.value.totalPossibleMarks = 10
    /\ cl.out.value.overallScore = 90

-----------------------------------------------------------------------------
(* Properties of the test-taking view (SpecTake).                          *)

\* C25: the answers state has one entry per question, from the first render
\* on, whatever draft was found and whatever answers were updated, and so has
\* every answers array passed to evaluateTest.
C25_AnswersPerQuestion ==
    tv.mounted =>
        /\ Len(tv.answers) = tv.n
        /\ tv.sent \subseteq {tv.n}

C25_Witness ==
    /\ tv.mounted
    /\ tv.n = 2
    /\ tv.draft = "array"
    /\ tv.answers = <<"a", "">>
    /\ tv.sent = {2}
    /\ tv.evaluating = 1

\* C30: an attempt has at most one run of handleSubmit under way and saves
\* at most one result.
C30_SingleSubmission ==
    /\ tv.evaluating + tv.saving <= 1
    /\ tv.saved <= 1

-----------------------------------------------------------------------------
(* Properties of save-test in update mode (SpecSave).                      *)

\* C26: when the call has ended, with any status, the stored questions of the
\* test are all the new ones or all the previous ones.
C26_QuestionsReplacedAtomically ==
    st.pc = "done" =>
        \/ st.questions = QuestionRows("new", st.next)
        \/ st.questions = QuestionRows("old", st.previous)

=============================================================================
